---- MODULE Spec2Model ----
(***************************************************************************)
(* Model of work.py: the button dispatcher (setup_buttons / handle_button),*)
(* the LED indicator (set_led, blink_led_worker, start_led_blinking,       *)
(* stop_led_blinking), the image selector and show_image.                  *)
(*                                                                         *)
(* The main thread and every blink_led_worker thread are separate          *)
(* processes; each atomic step holds at most one access to the shared      *)
(* state (led_blinking, the LED line).  Sleeps carry no state and are      *)
(* merged into the step that follows them.  Thread scheduling gives no     *)
(* timing guarantee, so join(timeout=1.0) may give up whenever the joined  *)
(* thread is still alive.                                                  *)
(***************************************************************************)
EXTENDS Integers, Sequences, FiniteSets, TLC

\* ------------------------------------------------------------------ bounds
MaxEvents == 2      \* edge events that arrive in one run of the program
MaxCalls == 3       \* calls made by the driver of the LED / show_image API
MaxThreads == (IF MaxEvents > MaxCalls THEN MaxEvents ELSE MaxCalls) + 1
MaxFiles == 3       \* entries of a folder given to the image selector
MaxMtime == 2       \* modification times of those entries: 1..MaxMtime
MaxDim == 4         \* widths and heights given to the resize: 1..MaxDim

\* --------------------------------------------------------------- constants
None == "None"
NoThread == 0       \* led_blink_thread = None
NoOffset == -1      \* led_line_offset = None
synologyInkyPath == "/mnt/synology/inky"
LED_PIN == 13
SW_A == 5
SW_B == 6
SW_C == 25
SW_D == 24
BUTTONS == <<SW_A, SW_B, SW_C, SW_D>>
LABELS == <<"A", "B", "C", "D">>
ACTIVE == "ACTIVE"
INACTIVE == "INACTIVE"

\* chip.line_offset_from_id: the chip's numbering of a pin (external).
line_offset_from_id(id) == id
OFFSETS == [i \in DOMAIN BUTTONS |-> line_offset_from_id(BUTTONS[i])]

\* ------------------------------------------------------------ file names
\* A file name is a sequence of one-character strings.
UpperChars == <<"A","B","C","D","E","F","G","H","I","J","K","L","M",
                "N","O","P","Q","R","S","T","U","V","W","X","Y","Z">>
LowerChars == <<"a","b","c","d","e","f","g","h","i","j","k","l","m",
                "n","o","p","q","r","s","t","u","v","w","x","y","z">>

LowerChar(c) ==
    IF \E i \in DOMAIN UpperChars : UpperChars[i] = c
    THEN LowerChars[CHOOSE i \in DOMAIN UpperChars : UpperChars[i] = c]
    ELSE c

\* a comparison of the name as it is, without lower()
lowerSkipped(s) == s

\* str.lower()
lower(s) == [i \in 1..Len(s) |-> LowerChar(s[i])]

\* str.endswith(tuple): some suffix of the tuple ends the string
endswith(s, suffixes) ==
    \E k \in DOMAIN suffixes :
        /\ Len(s) >= Len(suffixes[k])
        /\ SubSeq(s, Len(s) - Len(suffixes[k]) + 1, Len(s)) = suffixes[k]

image_extensions ==
    << <<".","j","p","g">>, <<".","j","p","e","g">>, <<".","p","n","g">>,
       <<".","g","i","f">>, <<".","b","m","p">> >>

\* The folder contents the program may find: a listing (in os.listdir
\* order) of entries with a name and a modification time.
EmptyDir == << >>
NoImageDir == << [name |-> <<"n",".","t","x","t">>, mtime |-> 3] >>
MixedDir ==
    << [name |-> <<"a",".","j","p","g">>, mtime |-> 1],
       [name |-> <<"b",".","P","N","G">>, mtime |-> 2],
       [name |-> <<"c",".","t","x","t">>, mtime |-> 3],
       [name |-> <<"d",".","g","i","f">>, mtime |-> 2] >>
Folders == {EmptyDir, NoImageDir, MixedDir}

\* The folders given to the image selector alone: every listing of up to
\* MaxFiles entries with distinct names and modification times 1..MaxMtime.
FileNames ==
    { <<"a",".","j","p","g">>, <<"b",".","P","N","G">>, <<"c",".","t","x","t">>,
      <<"d",".","J","p","e","g">>, <<"e",".","b","m","p">>, <<"f",".","G","I","F">>,
      <<"j","p","g">> }
Entries == [name : FileNames, mtime : 1..MaxMtime]
Listings ==
    UNION {{l \in [1..n -> Entries] :
               \A i, j \in 1..n : i # j => l[i].name # l[j].name} : n \in 0..MaxFiles}

\* os.listdir(folder)
listdir(dir) == [i \in DOMAIN dir |-> dir[i].name]

\* os.path.join(folder, f)
join(folder, f) == [folder |-> folder, name |-> f]

\* image_path = None
NoPath == [folder |-> None, name |-> << >>]

\* os.path.getmtime(path)
getmtime(dir, path) ==
    (CHOOSE e \in {dir[i] : i \in DOMAIN dir} : e.name = path.name).mtime

Raised(exc) == [raised |-> TRUE, exc |-> exc]
Returned(v) == [raised |-> FALSE, value |-> v]

IsImageName(f) == endswith(lower(f), image_extensions)

get_all_image_files(dir) ==
    LET image_files == SelectSeq(listdir(dir), IsImageName)
    IN  IF image_files = << >>
        THEN Raised("ValueError")
        ELSE Returned([i \in DOMAIN image_files |->
                          join(synologyInkyPath, image_files[i])])

\* a maximum that keeps the last of the greatest elements
RECURSIVE MaxFromLast(_, _, _, _)
MaxFromLast(dir, seq, i, best) ==
    IF i > Len(seq) THEN best
    ELSE MaxFromLast(dir, seq, i + 1,
                     IF getmtime(dir, seq[i]) >= getmtime(dir, best)
                     THEN seq[i] ELSE best)

\* max(seq, key=...): the first element whose key is the greatest
RECURSIVE MaxFrom(_, _, _, _)
MaxFrom(dir, seq, i, best) ==
    IF i > Len(seq) THEN best
    ELSE MaxFrom(dir, seq, i + 1,
                 IF getmtime(dir, seq[i]) > getmtime(dir, best)
                 THEN seq[i] ELSE best)

max_by_mtime(dir, seq) == MaxFrom(dir, seq, 2, seq[1])

\* The set of results get_random_image_path may produce (random.choice).
get_random_image_path(dir) ==
    LET all_images == get_all_image_files(dir)
    IN  IF all_images.raised THEN {all_images}
        ELSE {Returned(all_images.value[i]) : i \in DOMAIN all_images.value}

get_latest_image_path(dir) ==
    LET all_images == get_all_image_files(dir)
    IN  IF all_images.raised THEN {all_images}
        ELSE {Returned(max_by_mtime(dir, all_images.value))}

\* handle_button with the two policies exchanged
ActionOfSwapped(label) ==
    IF label = "A" THEN "latest"
    ELSE IF label = "B" THEN "random"
    ELSE "none"

\* handle_button with a plain else in place of the test for label B
ActionOfElse(label) ==
    IF label = "A" THEN "random"
    ELSE "latest"

\* handle_button: the policy bound to a label ("none": logged and ignored)
ActionOf(label) ==
    IF label = "A" THEN "random"
    ELSE IF label = "B" THEN "latest"
    ELSE "none"

ResolveImage(policy, dir) ==
    IF policy = "random" THEN get_random_image_path(dir)
    ELSE get_latest_image_path(dir)

\* ---------------------------------------------------------- Python floats
\* The floats of resize_image_aspect_fit are IEEE-754 binary64 numbers.
\* A natural number of up to Limbs * LimbBits bits is a sequence of limbs,
\* least significant first; a float is m * 2^e with m below 2^Precision.
Precision == 53             \* bits of a binary64 significand
LimbBits == 15
Limbs == 5
RECURSIVE Pow2(_)
Pow2(n) == IF n = 0 THEN 1 ELSE 2 * Pow2(n - 1)
LimbBase == Pow2(LimbBits)

\* the limbs of a number n, from limb j upwards
RECURSIVE BigFrom(_, _)
BigFrom(n, j) ==
    IF j > Limbs THEN << >>
    ELSE << n % LimbBase >> \o BigFrom(n \div LimbBase, j + 1)

Big(n) == BigFrom(n, 1)
BigZero == Big(0)

BitAt(Q, i) ==
    IF i < 0 \/ i >= Limbs * LimbBits THEN 0
    ELSE (Q[(i \div LimbBits) + 1] \div Pow2(i % LimbBits)) % 2

\* the number of bits of Q: 0 for zero
BitLen(Q) ==
    IF Q = BigZero THEN 0
    ELSE 1 + CHOOSE i \in 0..(Limbs * LimbBits - 1) :
                 /\ BitAt(Q, i) = 1
                 /\ \A j \in (i + 1)..(Limbs * LimbBits - 1) : BitAt(Q, j) = 0

\* the n bits of Q from bit lo upwards, as a number
RECURSIVE BitsValue(_, _, _)
BitsValue(Q, lo, n) ==
    IF n = 0 THEN 0 ELSE BitAt(Q, lo) + 2 * BitsValue(Q, lo + 1, n - 1)

\* Q \div 2^n
RECURSIVE ShiftFrom(_, _, _)
ShiftFrom(Q, n, j) ==
    IF j > Limbs THEN << >>
    ELSE << BitsValue(Q, n + LimbBits * (j - 1), LimbBits) >> \o ShiftFrom(Q, n, j + 1)

ShiftRight(Q, n) == ShiftFrom(Q, n, 1)

\* Q * 2^n
ShiftLeft(Q, n) == ShiftFrom(Q, 0 - n, 1)

\* the low k limbs of a are less than the low k limbs of b
LessLow(a, b, k) ==
    \E i \in 1..k : a[i] < b[i] /\ \A j \in (i + 1)..k : a[j] = b[j]

Less(a, b) == LessLow(a, b, Limbs)

\* a - b for a >= b, from limb j upwards with a borrow
RECURSIVE SubFrom(_, _, _, _)
SubFrom(a, b, j, borrow) ==
    IF j > Limbs THEN << >>
    ELSE << (a[j] - b[j] - borrow + LimbBase) % LimbBase >>
            \o SubFrom(a, b, j + 1, IF a[j] - b[j] - borrow < 0 THEN 1 ELSE 0)

Sub(a, b) == SubFrom(a, b, 1, 0)

\* Q * k + carry for numbers k and carry below LimbBase, from limb j upwards
RECURSIVE MulFrom(_, _, _, _)
MulFrom(Q, k, j, carry) ==
    IF j > Limbs THEN << >>
    ELSE << (Q[j] * k + carry) % LimbBase >>
            \o MulFrom(Q, k, j + 1, (Q[j] * k + carry) \div LimbBase)

MulSmall(Q, k) == MulFrom(Q, k, 1, 0)

\* 2 * Q + bit
Dbl(Q, bit) == MulFrom(Q, 2, 1, bit)

\* Q + 1
Inc(Q) == MulFrom(Q, 1, 1, 1)

\* Restoring division: `steps` more bits of the quotient st.rem / D, for
\* st.rem < D, appended to st.q.
RECURSIVE DivFrom(_, _, _)
DivFrom(D, steps, st) ==
    IF steps = 0 THEN st
    ELSE LET r == Dbl(st.rem, 0)
         IN  IF Less(r, D)
             THEN DivFrom(D, steps - 1, [q |-> Dbl(st.q, 0), rem |-> r])
             ELSE DivFrom(D, steps - 1, [q |-> Dbl(st.q, 1), rem |-> Sub(r, D)])

Double(m, e) == [m |-> m, e |-> e]

\* int -> float: exact for the sizes of an image
float(n) == Double(Big(n), 0)

\* Round Q * 2^e (plus a non-zero part below the last bit when sticky) to
\* Precision bits, to nearest, ties to even.
RoundToPrecision(Q, e, sticky) ==
    LET d == IF BitLen(Q) > Precision THEN BitLen(Q) - Precision ELSE 0
        kept == ShiftRight(Q, d)
        half == d > 0 /\ BitAt(Q, d - 1) = 1
        rest == sticky \/ \E i \in 0..(d - 2) : BitAt(Q, i) = 1
        up == half /\ (rest \/ BitAt(kept, 0) = 1)
        m == IF up THEN Inc(kept) ELSE kept
    IN  IF BitLen(m) > Precision THEN Double(ShiftRight(m, 1), e + d + 1)
        ELSE Double(m, e + d)

\* x / y: the significands are brought to the same length, so that their
\* quotient lies between 1/2 and 2 and has Precision + 2 or Precision + 3
\* bits after Precision + 2 steps of the division.
truediv(x, y) ==
    LET len == IF BitLen(x.m) > BitLen(y.m) THEN BitLen(x.m) ELSE BitLen(y.m)
        N == ShiftLeft(x.m, len - BitLen(x.m))
        D == ShiftLeft(y.m, len - BitLen(y.m))
        qr == IF Less(N, D)
              THEN DivFrom(D, Precision + 2, [q |-> BigZero, rem |-> N])
              ELSE DivFrom(D, Precision + 2, [q |-> Big(1), rem |-> Sub(N, D)])
    IN  RoundToPrecision(qr.q,
                         (x.e - (len - BitLen(x.m))) - (y.e - (len - BitLen(y.m)))
                             - (Precision + 2),
                         qr.rem # BigZero)

\* k * y for an int k
mul(k, y) == RoundToPrecision(MulSmall(y.m, k), y.e, FALSE)

\* x > y for two quotients (significands of exactly Precision bits)
gt(x, y) == x.e > y.e \/ (x.e = y.e /\ Less(y.m, x.m))

\* int(x): truncation towards zero (the results here are below 2^30)
int(x) == IF x.e >= 0 THEN BitsValue(x.m, 0, 30) * Pow2(x.e)
          ELSE BitsValue(x.m, 0 - x.e, 30)

\* lines 100-124 of resize_image_aspect_fit: the sizes it computes
resize_image_aspect_fit(img, size) ==
    LET target_width == size[1]
        target_height == size[2]
        image_aspect == truediv(float(img.width), float(img.height))
        target_aspect == truediv(float(target_width), float(target_height))
        new_width == IF gt(image_aspect, target_aspect) THEN target_width
                     ELSE int(mul(target_height, image_aspect))
        new_height == IF gt(image_aspect, target_aspect)
                      THEN int(truediv(float(target_width), image_aspect))
                      ELSE target_height
    IN  [new_width |-> new_width, new_height |-> new_height,
         x_offset |-> (target_width - new_width) \div 2,
         y_offset |-> (target_height - new_height) \div 2,
         size |-> size]

\* ------------------------------------------------------------------ state
VARIABLES
    ctx,              \* "program": setup_buttons runs; "api": a driver calls the functions
    pc,               \* position of the main thread
    ret,              \* caller of stop_led_blinking: "show_image" or "api"
    led_blinking,     \* global flag
    led_blink_thread, \* global thread handle: NoThread or a thread id
    led_gpio_request, \* global: None or the LED line request
    led_line_offset,  \* global: NoOffset or the LED line offset
    led_line,         \* value of the LED output line
    workers,          \* position of every blink_led_worker thread
    fs,               \* contents of the image folder
    args_file,        \* --file command line argument (NoPath when absent)
    queue,            \* edge events buffered by the line request
    batch,            \* events returned by read_edge_events, not yet iterated
    arrived,          \* history: every edge event, in arrival order
    handled,          \* history: events passed to handle_button, in order
    image_path,       \* argument of the running show_image call
    file,             \* show_image's local: the file it renders
    trace,            \* history: calls made by the main thread in the current top-level call
    error,            \* exception that left the last top-level call (None when none)
    history,          \* history: calls made by the API driver
    writes,           \* history: per worker, its line writes since the flag was last cleared
    image,            \* resize_image_aspect_fit: size of the source image
    target_size,      \* resize_image_aspect_fit: the target size
    resized           \* resize_image_aspect_fit: what it computed

vars == <<ctx, pc, ret, led_blinking, led_blink_thread, led_gpio_request,
          led_line_offset, led_line, workers, fs, args_file, queue, batch,
          arrived, handled, image_path, file, trace, error, history, writes,
          image, target_size, resized>>

Threads == 1..MaxThreads
AliveAt == {"while", "on", "if", "off"}
Alive(t) == workers[t] \in AliveAt
AliveThreads == {t \in Threads : Alive(t)}

ledVars == <<led_gpio_request, led_line_offset>>
eventVars == <<queue, batch, arrived, handled>>
envVars == <<ctx, fs, args_file, image, target_size, resized>>

\* ---------------------------------------------------------- LED indicator
Value(state) == IF state THEN ACTIVE ELSE INACTIVE

\* set_led: the guard of line 147
LineBound == led_gpio_request # None /\ led_line_offset # NoOffset

\* An exception leaves the running top-level call.  In the program nothing
\* catches it: setup_buttons ends, the process exits and its daemon threads
\* end with it.  The API driver sees the exception and goes on.
Raise(exc) ==
    /\ error' = exc
    /\ pc' = IF ctx = "program" THEN "crashed" ELSE "api"
    /\ workers' = IF ctx = "program"
                  THEN [t \in Threads |-> IF Alive(t) THEN "killed" ELSE workers[t]]
                  ELSE workers

\* One entry of trace: a call made by the main thread and how it ended
Call(c, r) == [call |-> c, result |-> r]
SetLedName(state) == IF state THEN "set_led(True)" ELSE "set_led(False)"

\* set_led(state) called by the main thread, continuing at next
MainSetLed(state, next) ==
    \/ /\ ~LineBound
       /\ trace' = Append(trace, Call(SetLedName(state), "unbound"))
       /\ pc' = next
       /\ UNCHANGED <<led_line, workers, error>>
    \/ /\ LineBound
       /\ trace' = Append(trace, Call(SetLedName(state), "ok"))
       /\ led_line' = Value(state)
       /\ pc' = next
       /\ UNCHANGED <<workers, error>>
    \/ /\ LineBound
       /\ trace' = Append(trace, Call(SetLedName(state), "LineWriteFailure"))
       /\ Raise("LineWriteFailure")
       /\ UNCHANGED led_line

\* writes after worker t has written the line: writes made while the flag
\* is cleared are counted (up to 2), writes made while it is set are not
Written(t) ==
    IF led_blinking THEN writes
    ELSE [writes EXCEPT ![t] = IF @ < 2 THEN @ + 1 ELSE @]

\* blink_led_worker, line 153: while led_blinking
WorkerWhile(t) ==
    /\ pc # "crashed"
    /\ workers[t] = "while"
    /\ workers' = [workers EXCEPT ![t] = IF led_blinking THEN "on" ELSE "done"]
    /\ UNCHANGED <<pc, ret, led_blinking, led_blink_thread, ledVars, led_line,
                   envVars, writes, eventVars, image_path, file, trace, error, history>>

\* blink_led_worker, lines 154-155: set_led(True); sleep
WorkerOn(t) ==
    /\ pc # "crashed"
    /\ workers[t] = "on"
    /\ \/ /\ led_line' = (IF LineBound THEN ACTIVE ELSE led_line)
          /\ workers' = [workers EXCEPT ![t] = "if"]
          /\ writes' = Written(t)
       \/ /\ LineBound
          /\ workers' = [workers EXCEPT ![t] = "failed"]
          /\ UNCHANGED <<led_line, writes>>
    /\ UNCHANGED <<pc, ret, led_blinking, led_blink_thread, ledVars,
                   envVars, eventVars, image_path, file, trace, error, history>>

\* blink_led_worker without the second test of the flag
WorkerIfNoCheck(t) ==
    /\ pc # "crashed"
    /\ workers[t] = "if"
    /\ workers' = [workers EXCEPT ![t] = "off"]
    /\ UNCHANGED <<pc, ret, led_blinking, led_blink_thread, ledVars, led_line,
                   envVars, writes, eventVars, image_path, file, trace, error, history>>

\* blink_led_worker, lines 156-157: if not led_blinking: break
WorkerIf(t) ==
    /\ pc # "crashed"
    /\ workers[t] = "if"
    /\ workers' = [workers EXCEPT ![t] = IF ~led_blinking THEN "done" ELSE "off"]
    /\ UNCHANGED <<pc, ret, led_blinking, led_blink_thread, ledVars, led_line,
                   envVars, writes, eventVars, image_path, file, trace, error, history>>

\* blink_led_worker, lines 158-159: set_led(False); sleep
WorkerOff(t) ==
    /\ pc # "crashed"
    /\ workers[t] = "off"
    /\ \/ /\ led_line' = (IF LineBound THEN INACTIVE ELSE led_line)
          /\ workers' = [workers EXCEPT ![t] = "while"]
          /\ writes' = Written(t)
       \/ /\ LineBound
          /\ workers' = [workers EXCEPT ![t] = "failed"]
          /\ UNCHANGED <<led_line, writes>>
    /\ UNCHANGED <<pc, ret, led_blinking, led_blink_thread, ledVars,
                   envVars, eventVars, image_path, file, trace, error, history>>

blink_led_worker(t) ==
    WorkerWhile(t) \/ WorkerOn(t) \/ WorkerIf(t) \/ WorkerOff(t)

\* start_led_blinking without its test of the flag
StartGuardAlways(blinking) == TRUE

\* start_led_blinking, line 165: if not led_blinking
StartGuard(blinking) == ~blinking

\* threading.Thread(...): the new thread object
NewThread == CHOOSE t \in Threads :
                 workers[t] = "unborn" /\ \A u \in Threads : u < t => workers[u] # "unborn"

\* start_led_blinking (the whole function; it cannot block)
start_led_blinking ==
    IF StartGuard(led_blinking)
    THEN /\ led_blinking' = TRUE
         /\ led_blink_thread' = NewThread
         /\ workers' = [workers EXCEPT ![NewThread] = "while"]
         /\ writes' = [t \in Threads |-> 0]
    ELSE UNCHANGED <<led_blinking, led_blink_thread, workers, writes>>

\* stop_led_blinking without its test of the flag
StopGuardAlways(blinking) == TRUE

\* stop_led_blinking, line 174: if led_blinking
StopGuard(blinking) == blinking

\* where stop_led_blinking returns to
StopReturn == IF ret = "show_image" THEN "set_led" ELSE "api"

\* stop_led_blinking, lines 174-176
StopIf ==
    /\ pc = "stop_led_blinking"
    /\ IF StopGuard(led_blinking)
       THEN /\ led_blinking' = FALSE
            /\ pc' = IF led_blink_thread # NoThread THEN "join" ELSE "stop_set_led"
       ELSE /\ pc' = StopReturn
            /\ UNCHANGED led_blinking
    /\ trace' = Append(trace, Call("stop_led_blinking", "ok"))
    /\ UNCHANGED <<ret, led_blink_thread, ledVars, led_line, workers, envVars, writes,
                   eventVars, image_path, file, error, history>>

\* led_blink_thread.join(timeout=1.0) returns because the thread has ended
Join ==
    /\ pc = "join"
    /\ ~Alive(led_blink_thread)
    /\ pc' = "stop_set_led"
    /\ trace' = Append(trace, Call("join", "exited"))
    /\ UNCHANGED <<ret, led_blinking, led_blink_thread, ledVars, led_line, workers,
                   envVars, writes, eventVars, image_path, file, error, history>>

\* led_blink_thread.join(timeout=1.0) gives up: the thread is still alive
JoinTimeout ==
    /\ pc = "join"
    /\ Alive(led_blink_thread)
    /\ pc' = "stop_set_led"
    /\ trace' = Append(trace, Call("join", "timeout"))
    /\ UNCHANGED <<ret, led_blinking, led_blink_thread, ledVars, led_line, workers,
                   envVars, writes, eventVars, image_path, file, error, history>>

\* stop_led_blinking, line 178: set_led(False), then return
StopSetLed ==
    /\ pc = "stop_set_led"
    /\ MainSetLed(FALSE, StopReturn)
    /\ UNCHANGED <<ret, led_blinking, led_blink_thread, ledVars, envVars, writes,
                   eventVars, image_path, file, history>>

\* ------------------------------------------------------------- show_image
\* where show_image (and with it handle_button) returns to
ForNext(b) == IF b = << >> THEN "read" ELSE "for"
ShowReturn == IF ctx = "api" THEN "api" ELSE ForNext(batch)

\* show_image, line 205: stop_led_blinking()
ShowStop ==
    /\ pc = "show_image"
    /\ pc' = "stop_led_blinking"
    /\ ret' = "show_image"
    /\ file' = NoPath
    /\ UNCHANGED <<led_blinking, led_blink_thread, ledVars, led_line, workers,
                   envVars, writes, eventVars, image_path, trace, error, history>>

\* show_image, line 206: set_led(True)
ShowSetLed ==
    /\ pc = "set_led"
    /\ MainSetLed(TRUE, "prepare")
    /\ UNCHANGED <<ret, led_blinking, led_blink_thread, ledVars, envVars, writes,
                   eventVars, image_path, file, history>>

\* show_image, lines 220-226: which file to render
SelectFile ==
    IF image_path # NoPath THEN {Returned(image_path)}
    ELSE IF args_file # NoPath THEN {Returned(args_file)}
    ELSE get_random_image_path(fs)

\* show_image, lines 208-232: argument parser, auto(), file selection,
\* Image.open and resize_image_aspect_fit; auto, open and resize may raise
ShowPrepare ==
    /\ pc = "prepare"
    /\ \/ /\ Raise("RenderFailure")
          /\ UNCHANGED file
       \/ \E r \in SelectFile :
            IF r.raised
            THEN Raise(r.exc) /\ UNCHANGED file
            ELSE /\ file' = r.value
                 /\ \/ pc' = "set_image" /\ UNCHANGED <<workers, error>>
                    \/ Raise("RenderFailure")
    /\ UNCHANGED <<ret, led_blinking, led_blink_thread, ledVars, led_line, envVars, writes,
                   eventVars, image_path, trace, history>>

\* What inky.set_image(image, saturation=...) may do: accept the call, raise
\* TypeError because it takes no saturation parameter, raise TypeError from
\* inside the driver for another reason, or raise another exception.
SetImageOutcomes == {"ok", "TypeError:unexpected keyword", "TypeError:other", "error"}
IsTypeError(o) == o \in {"TypeError:unexpected keyword", "TypeError:other"}

\* show_image, lines 234-236: try: inky.set_image(resized_image, saturation=saturation)
ShowSetImage ==
    /\ pc = "set_image"
    /\ \E o \in SetImageOutcomes :
         /\ trace' = Append(trace, Call("set_image(saturation)", o))
         /\ IF o = "ok" THEN pc' = "show" /\ UNCHANGED <<workers, error>>
            ELSE IF IsTypeError(o) THEN pc' = "set_image_fallback" /\ UNCHANGED <<workers, error>>
            ELSE Raise("RenderFailure")
    /\ UNCHANGED <<ret, led_blinking, led_blink_thread, ledVars, led_line, envVars, writes,
                   eventVars, image_path, file, history>>

\* show_image, line 237: except TypeError: inky.set_image(resized_image)
ShowSetImageFallback ==
    /\ pc = "set_image_fallback"
    /\ \E o \in {"ok", "error"} :
         /\ trace' = Append(trace, Call("set_image()", o))
         /\ IF o = "ok" THEN pc' = "show" /\ UNCHANGED <<workers, error>>
            ELSE Raise("RenderFailure")
    /\ UNCHANGED <<ret, led_blinking, led_blink_thread, ledVars, led_line, envVars, writes,
                   eventVars, image_path, file, history>>

\* show_image, line 239: inky.show()
ShowShow ==
    /\ pc = "show"
    /\ \E o \in {"ok", "error"} :
         /\ trace' = Append(trace, Call("show", o))
         /\ IF o = "ok" THEN pc' = "resume" /\ UNCHANGED <<workers, error>>
            ELSE Raise("RenderFailure")
    /\ UNCHANGED <<ret, led_blinking, led_blink_thread, ledVars, led_line, envVars, writes,
                   eventVars, image_path, file, history>>

\* show_image, line 242: start_led_blinking(), then return
ShowStart ==
    /\ pc = "resume"
    /\ start_led_blinking
    /\ trace' = Append(trace, Call("start_led_blinking", "ok"))
    /\ pc' = ShowReturn
    /\ UNCHANGED <<ret, ledVars, led_line, envVars, eventVars, image_path, file,
                   error, history>>

\* ------------------------------------------------------------- dispatcher
\* setup_buttons going on without the LED line when its request fails
setup_led_unchecked ==
    /\ pc = "setup_led"
    /\ \/ /\ led_line_offset' = line_offset_from_id(LED_PIN)
          /\ led_gpio_request' = "inky-led"
       \/ UNCHANGED ledVars
    /\ pc' = "request_lines"
    /\ UNCHANGED <<workers, error>>
    /\ UNCHANGED <<ret, led_blinking, led_blink_thread, led_line, envVars, writes, eventVars,
                   image_path, file, trace, history>>

\* setup_led, lines 135-142: find the chip and request the LED line
setup_led ==
    /\ pc = "setup_led"
    /\ \/ /\ led_line_offset' = line_offset_from_id(LED_PIN)
          /\ led_gpio_request' = "inky-led"
          /\ pc' = "request_lines"
          /\ UNCHANGED <<workers, error>>
       \/ /\ Raise("LineAcquisitionFailure")
          /\ UNCHANGED ledVars
    /\ UNCHANGED <<ret, led_blinking, led_blink_thread, led_line, envVars, writes, eventVars,
                   image_path, file, trace, history>>

\* setup_buttons, lines 248-272: request the four button lines
request_lines ==
    /\ pc = "request_lines"
    /\ \/ pc' = "start" /\ UNCHANGED <<workers, error>>
       \/ Raise("LineAcquisitionFailure")
    /\ UNCHANGED <<ret, led_blinking, led_blink_thread, ledVars, led_line, envVars, writes,
                   eventVars, image_path, file, trace, history>>

\* setup_buttons, line 295: start_led_blinking()
StartupBlink ==
    /\ pc = "start"
    /\ start_led_blinking
    /\ pc' = "read"
    /\ UNCHANGED <<ret, ledVars, led_line, envVars, eventVars, image_path, file,
                   trace, error, history>>

\* A button is pressed: the requested lines buffer a falling-edge event.
Press ==
    /\ pc \notin {"setup_led", "request_lines", "crashed"}
    /\ ctx = "program"
    /\ Len(arrived) < MaxEvents
    /\ \E i \in DOMAIN OFFSETS :
         /\ queue' = Append(queue, OFFSETS[i])
         /\ arrived' = Append(arrived, OFFSETS[i])
    /\ UNCHANGED <<pc, ret, led_blinking, led_blink_thread, ledVars, led_line, workers,
                   envVars, writes, batch, handled, image_path, file, trace, error, history>>

\* setup_buttons, line 300: request.read_edge_events() blocks until an
\* event is buffered and returns the buffered events in order
read_edge_events ==
    /\ pc = "read"
    /\ queue # << >>
    /\ batch' = queue
    /\ queue' = << >>
    /\ pc' = "for"
    /\ UNCHANGED <<ret, led_blinking, led_blink_thread, ledVars, led_line, workers,
                   envVars, writes, arrived, handled, image_path, file, trace, error, history>>

\* handle_button, lines 278-280: the label of an event
LabelOf(offset) ==
    LET index == CHOOSE i \in DOMAIN OFFSETS :
                     OFFSETS[i] = offset /\ \A j \in DOMAIN OFFSETS : j < i => OFFSETS[j] # offset
    IN  LABELS[index]

\* setup_buttons, line 301, and handle_button, lines 278-292, up to the call
\* of show_image
handle_button ==
    /\ pc = "for"
    /\ LET event == Head(batch)
           policy == ActionOf(LabelOf(event))
       IN  /\ batch' = Tail(batch)
           /\ handled' = Append(handled, event)
           /\ trace' = << >>
           /\ IF policy = "none"
              THEN /\ pc' = ForNext(Tail(batch))
                   /\ UNCHANGED <<image_path, workers, error>>
              ELSE \E r \in ResolveImage(policy, fs) :
                     IF r.raised
                     THEN Raise(r.exc) /\ UNCHANGED image_path
                     ELSE /\ image_path' = r.value
                          /\ pc' = "show_image"
                          /\ UNCHANGED <<workers, error>>
    /\ UNCHANGED <<ret, led_blinking, led_blink_thread, ledVars, led_line, envVars, writes,
                   queue, arrived, file, history>>

\* ------------------------------------------------------------- API driver
\* A caller on the main thread that calls start_led_blinking,
\* stop_led_blinking and show_image in any order.
ApiStart ==
    /\ pc = "api"
    /\ Len(history) < MaxCalls
    /\ history' = Append(history, "start_led_blinking")
    /\ start_led_blinking
    /\ trace' = << Call("start_led_blinking", "ok") >>
    /\ error' = None
    /\ UNCHANGED <<pc, ret, ledVars, led_line, envVars, eventVars, image_path, file>>

ApiStop ==
    /\ pc = "api"
    /\ Len(history) < MaxCalls
    /\ history' = Append(history, "stop_led_blinking")
    /\ pc' = "stop_led_blinking"
    /\ ret' = "api"
    /\ trace' = << >>
    /\ error' = None
    /\ UNCHANGED <<led_blinking, led_blink_thread, ledVars, led_line, workers, envVars, writes,
                   eventVars, image_path, file>>

\* the arguments show_image is called with
ApiPaths ==
    {NoPath} \cup {r.value : r \in {q \in get_random_image_path(fs) : ~q.raised}}

ApiShow ==
    /\ pc = "api"
    /\ Len(history) < MaxCalls
    /\ history' = Append(history, "show_image")
    /\ \E p \in ApiPaths : image_path' = p
    /\ pc' = "show_image"
    /\ trace' = << >>
    /\ error' = None
    /\ UNCHANGED <<ret, led_blinking, led_blink_thread, ledVars, led_line, workers,
                   envVars, writes, eventVars, file>>

\* ---------------------------------------------------------- specifications
\* show_image has not opened an image yet
NoImage == [width |-> 0, height |-> 0]
NoSize == <<0, 0>>
NoResult == [new_width |-> 0, new_height |-> 0, x_offset |-> 0, y_offset |-> 0,
             size |-> NoSize]

\* --file given on the command line
CliFile == join(synologyInkyPath, <<"f",".","b","m","p">>)

InitCommon ==
    /\ ret = "none"
    /\ led_blinking = FALSE
    /\ led_blink_thread = NoThread
    /\ led_line = INACTIVE
    /\ workers = [t \in Threads |-> "unborn"]
    /\ fs \in Folders
    /\ queue = << >>
    /\ batch = << >>
    /\ arrived = << >>
    /\ handled = << >>
    /\ image_path = NoPath
    /\ file = NoPath
    /\ trace = << >>
    /\ error = None
    /\ history = << >>
    /\ writes = [t \in Threads |-> 0]
    /\ image = NoImage
    /\ target_size = NoSize
    /\ resized = NoResult

\* The program: the module is loaded and setup_buttons() is about to run.
Init ==
    /\ InitCommon
    /\ ctx = "program"
    /\ pc = "setup_led"
    /\ led_gpio_request = None
    /\ led_line_offset = NoOffset
    /\ args_file = NoPath

\* The API driver: the globals as the module sets them, setup_led() called
\* or not.
InitApi ==
    /\ InitCommon
    /\ ctx = "api"
    /\ pc = "api"
    /\ \/ led_gpio_request = None /\ led_line_offset = NoOffset
       \/ led_gpio_request = "inky-led" /\ led_line_offset = line_offset_from_id(LED_PIN)
    /\ args_file \in {NoPath, CliFile}

\* The image selector alone: one call on an arbitrary folder.
InitSelect ==
    /\ ctx = "select"
    /\ pc = "select"
    /\ fs \in Listings
    /\ ret = "none"
    /\ led_blinking = FALSE
    /\ led_blink_thread = NoThread
    /\ led_gpio_request = None
    /\ led_line_offset = NoOffset
    /\ led_line = INACTIVE
    /\ workers = [t \in Threads |-> "unborn"]
    /\ args_file = NoPath
    /\ queue = << >>
    /\ batch = << >>
    /\ arrived = << >>
    /\ handled = << >>
    /\ image_path = NoPath
    /\ file = NoPath
    /\ trace = << >>
    /\ error = None
    /\ history = << >>
    /\ writes = [t \in Threads |-> 0]
    /\ image = NoImage
    /\ target_size = NoSize
    /\ resized = NoResult

\* a call of a selector function: its result is kept in image_path, its
\* exception in error
SelectCall(name, results) ==
    /\ ctx = "select"
    /\ pc = "select"
    /\ pc' = "selected"
    /\ history' = << name >>
    /\ \E r \in results :
         IF r.raised
         THEN error' = r.exc /\ UNCHANGED image_path
         ELSE image_path' = r.value /\ UNCHANGED error
    /\ UNCHANGED <<ret, led_blinking, led_blink_thread, ledVars, led_line, workers,
                   envVars, writes, eventVars, file, trace>>

SelectRandom == SelectCall("get_random_image_path", get_random_image_path(fs))

SelectLatest == SelectCall("get_latest_image_path", get_latest_image_path(fs))

NextSelect == SelectRandom \/ SelectLatest

SpecSelect == InitSelect /\ [][NextSelect]_vars

\* The resize alone: one call on an arbitrary image and target size. The
\* sizes are all those up to MaxDim and some larger ones, each written
\* <<image.width, image.height, target_width, target_height>>.
SampleSizes ==
    { <<200, 100, 100, 100>>, <<640, 480, 800, 480>>, <<4000, 3000, 600, 448>>,
      <<13, 23, 13, 23>>, <<3, 11, 15, 55>>, <<1, 49, 1, 49>>, <<9, 7, 9, 8>>,
      <<100, 1, 10, 10>>, <<1, 100, 10, 10>>, <<3, 1, 5, 5>> }

ResizeInputs ==
    ((1..MaxDim) \X (1..MaxDim) \X (1..MaxDim) \X (1..MaxDim)) \cup SampleSizes

InitResize ==
    /\ ctx = "resize"
    /\ pc = "resize"
    /\ \E sizes \in ResizeInputs :
         /\ image = [width |-> sizes[1], height |-> sizes[2]]
         /\ target_size = << sizes[3], sizes[4] >>
    /\ resized = NoResult
    /\ fs = EmptyDir
    /\ ret = "none"
    /\ led_blinking = FALSE
    /\ led_blink_thread = NoThread
    /\ led_gpio_request = None
    /\ led_line_offset = NoOffset
    /\ led_line = INACTIVE
    /\ workers = [t \in Threads |-> "unborn"]
    /\ args_file = NoPath
    /\ queue = << >>
    /\ batch = << >>
    /\ arrived = << >>
    /\ handled = << >>
    /\ image_path = NoPath
    /\ file = NoPath
    /\ trace = << >>
    /\ error = None
    /\ history = << >>
    /\ writes = [t \in Threads |-> 0]

\* a call of resize_image_aspect_fit(image, target_size)
Resize ==
    /\ ctx = "resize"
    /\ pc = "resize"
    /\ pc' = "resized"
    /\ resized' = resize_image_aspect_fit(image, target_size)
    /\ history' = << "resize_image_aspect_fit" >>
    /\ UNCHANGED <<ret, led_blinking, led_blink_thread, ledVars, led_line, workers,
                   ctx, fs, args_file, image, target_size, writes, eventVars,
                   image_path, file, trace, error>>

NextResize == Resize

SpecResize == InitResize /\ [][NextResize]_vars

Shared ==
    \/ \E t \in Threads : WorkerWhile(t)
    \/ \E t \in Threads : WorkerOn(t)
    \/ \E t \in Threads : WorkerIf(t)
    \/ \E t \in Threads : WorkerOff(t)
    \/ StopIf
    \/ Join
    \/ JoinTimeout
    \/ StopSetLed
    \/ ShowStop
    \/ ShowSetLed
    \/ ShowPrepare
    \/ ShowSetImage
    \/ ShowSetImageFallback
    \/ ShowShow
    \/ ShowStart

Next ==
    \/ setup_led
    \/ request_lines
    \/ StartupBlink
    \/ Press
    \/ read_edge_events
    \/ handle_button
    \/ Shared

NextApi ==
    \/ ApiStart
    \/ ApiStop
    \/ ApiShow
    \/ Shared

Spec == Init /\ [][Next]_vars

\* The program under a scheduler that lets every runnable blink worker run
\* and lets a join return once its thread has ended.
FairSpec ==
    /\ Init /\ [][Next]_vars
    /\ \A t \in Threads : WF_vars(blink_led_worker(t))
    /\ WF_vars(Join)

SpecApi == InitApi /\ [][NextApi]_vars

\* ------------------------------------------------------------------ claims
Last(seq) == seq[Len(seq)]

\* The dispatcher's state: idle between events, rendering inside a handler.
DispatcherState ==
    IF pc \in {"read", "for"} THEN "IDLE_BLINKING"
    ELSE IF pc \in {"setup_led", "request_lines", "start"} THEN "STARTUP"
    ELSE IF pc = "crashed" THEN "TERMINATED"
    ELSE "RENDERING"

\* The render window of show_image: set_led(True) has returned and the
\* closing start_led_blinking has not yet run.
InRenderWindow == pc \in {"prepare", "set_image", "set_image_fallback", "show", "resume"}

\* C1: at most one blink_led_worker thread is alive in every reachable
\* state, also after a join that gave up.
C1_AtMostOneWorker == Cardinality(AliveThreads) <= 1

\* C2: when stop_led_blinking has returned to show_image, the blink worker
\* has terminated and the LED line is INACTIVE (no worker is left to write).
C2_StopIsSynchronous ==
    (ctx = "program" /\ pc = "set_led") => (AliveThreads = {} /\ led_line = INACTIVE)

\* C3: inside the render window the LED line is ACTIVE and no blink worker
\* is alive.
C3_SolidDuringRender ==
    (ctx = "program" /\ InRenderWindow) => (led_line = ACTIVE /\ AliveThreads = {})

\* C4: after a render step has failed, start_led_blinking has run and the
\* dispatcher is back in IDLE_BLINKING: the LED is not left solid-on.
C4_ResumesAfterFailedRender ==
    (ctx = "program" /\ error = "RenderFailure") =>
        (DispatcherState = "IDLE_BLINKING" /\ led_blinking)

\* C5: an EmptyFolder error (ValueError) or a render failure does not end
\* the event loop; the LED is blinking again.
C5_ErrorsCaughtByDispatcher ==
    (ctx = "program" /\ error \in {"ValueError", "RenderFailure"}) =>
        (pc # "crashed" /\ led_blinking)

\* The dispatcher-level calls of a trace: stop, solid on, accepted render,
\* commit, resume.
IsDispatcherCall(e) ==
    \/ e.call \in {"stop_led_blinking", "set_led(True)", "show", "start_led_blinking"}
    \/ e.call \in {"set_image(saturation)", "set_image()"} /\ e.result = "ok"

CallName(e) == IF e.call \in {"set_image(saturation)", "set_image()"} THEN "render" ELSE e.call

DispatcherCalls(tr) ==
    LET sel == SelectSeq(tr, IsDispatcherCall)
    IN  [i \in DOMAIN sel |-> CallName(sel[i])]

\* entries of the folder that are images
ImageEntries == {i \in DOMAIN fs : IsImageName(fs[i].name)}

\* p is the path of an image of the folder chosen under the label's policy
ChosenByPolicy(label, p) ==
    \E i \in ImageEntries :
        /\ p = join(synologyInkyPath, fs[i].name)
        /\ label = "B" => \A j \in ImageEntries : fs[j].mtime <= fs[i].mtime

HandlerReturns ==
    /\ ctx = "program"
    /\ pc \notin {"read", "for", "start"}
    /\ pc' \in {"read", "for"}

\* C6: when the handler of a button A or B event returns, the main thread
\* has made, in this order and once each, stop_led_blinking, set_led(True),
\* one accepted set_image, show and start_led_blinking; the file rendered is
\* the one the label's policy selects; and blinking is running again.
C6_OneRenderPerEvent ==
    [][HandlerReturns =>
        /\ DispatcherCalls(trace') =
              <<"stop_led_blinking", "set_led(True)", "render", "show", "start_led_blinking">>
        /\ ChosenByPolicy(LabelOf(Last(handled')), file')
        /\ led_blinking'
        /\ workers'[led_blink_thread'] \in AliveAt]_vars

C6_Witness ==
    /\ ctx = "program"
    /\ pc \in {"read", "for"}
    /\ handled # << >>
    /\ LabelOf(Last(handled)) = "B"
    /\ Len(DispatcherCalls(trace)) = 5
    /\ led_blinking

\* C7: handling an event with label C or D changes neither the blink flag,
\* the thread handle, any worker nor the LED line, makes no call, and leaves
\* the dispatcher in IDLE_BLINKING.
C7_OtherLabelsIgnored ==
    [][(pc = "for" /\ handled' # handled /\ LabelOf(Head(batch)) \in {"C", "D"}) =>
        /\ UNCHANGED <<led_blinking, led_blink_thread, workers, led_line, error>>
        /\ trace' = << >>
        /\ pc' \in {"read", "for"}]_vars

C7_Witness ==
    /\ handled # << >>
    /\ LabelOf(Last(handled)) \in {"C", "D"}
    /\ pc \in {"read", "for"}
    /\ led_blinking

Started == {t \in Threads : workers[t] # "unborn"}

ApiCalls(name) ==
    /\ Len(history') = Len(history) + 1
    /\ Last(history') = name

\* C8: start_led_blinking called while blinking is running starts no thread
\* and changes no state; after calls of start_led_blinking only, exactly one
\* thread has been started.
C8_StartIdempotent ==
    /\ [][(ApiCalls("start_led_blinking") /\ led_blinking) =>
            UNCHANGED <<led_blinking, led_blink_thread, workers, led_line>>]_vars
    /\ []((history # << >> /\ \A i \in DOMAIN history : history[i] = "start_led_blinking")
            => (Cardinality(Started) = 1 /\ led_blink_thread \in Started))

C8_Witness ==
    /\ Len(history) >= 2
    /\ \A i \in DOMAIN history : history[i] = "start_led_blinking"
    /\ Cardinality(Started) = 1
    /\ Alive(led_blink_thread)

\* C9: stop_led_blinking called while blinking is not running returns at
\* once: no join, no write to the LED line, flag and handle unchanged.
C9_StopNoopWhenIdle ==
    [][(pc = "stop_led_blinking" /\ pc' # pc /\ ~led_blinking) =>
        /\ pc' = StopReturn
        /\ trace' = Append(trace, Call("stop_led_blinking", "ok"))
        /\ UNCHANGED <<led_blinking, led_blink_thread, workers, led_line, error>>]_vars

C9_Witness ==
    /\ pc = "api"
    /\ history # << >>
    /\ Last(history) = "stop_led_blinking"
    /\ trace = << Call("stop_led_blinking", "ok") >>
    /\ ~led_blinking

\* C10: no event is dropped: once the event loop has ended, no event that
\* arrived is left unhandled.
C10_NoEventDropped ==
    (pc = "crashed" /\ error # "LineAcquisitionFailure") => (queue = << >> /\ batch = << >>)

\* C11: a line-write failure of the blink worker is surfaced by the next
\* stop_led_blinking: when that call has joined a worker a failed write
\* ended and returns to show_image, the failure has been reported.
C11_WriteFailureSurfaced ==
    (ctx = "program" /\ pc = "set_led" /\ led_blink_thread # NoThread
        /\ workers[led_blink_thread] = "failed") => error = "LineWriteFailure"

CountCalls(tr, name) == Cardinality({i \in DOMAIN tr : tr[i].call = name})

\* C12: the call without the saturation parameter is made at most once and
\* only right after the driver reported that it does not take the
\* parameter; an accepted first call is followed by no second render call;
\* show is called at most once, after an accepted render call.
C12_RetryOnlyWhenUnsupported ==
    /\ CountCalls(trace, "set_image(saturation)") <= 1
    /\ CountCalls(trace, "set_image()") <= 1
    /\ CountCalls(trace, "show") <= 1
    /\ \A i \in DOMAIN trace :
         /\ trace[i].call = "set_image()" =>
               (i > 1 /\ trace[i - 1] = Call("set_image(saturation)", "TypeError:unexpected keyword"))
         /\ trace[i].call = "show" =>
               (i > 1 /\ trace[i - 1].call \in {"set_image(saturation)", "set_image()"}
                      /\ trace[i - 1].result = "ok")

\* C17: no edge event is read or handled, and no blink worker is started,
\* before the LED line is bound; events are handled only after blinking was
\* started; a failed line request ends the process with no worker started
\* and no event read.
C17_StartupOrder ==
    /\ (pc \notin {"setup_led", "crashed"}) => LineBound
    /\ (\E t \in Threads : workers[t] # "unborn") => LineBound
    /\ (ctx = "program" /\ (batch # << >> \/ handled # << >> \/ pc \in {"read", "for"}))
          => \E t \in Threads : workers[t] # "unborn"
    /\ error = "LineAcquisitionFailure" =>
          /\ pc = "crashed"
          /\ \A t \in Threads : workers[t] = "unborn"
          /\ ~led_blinking
          /\ batch = << >> /\ handled = << >> /\ queue = << >>

C17_Witness ==
    /\ ctx = "program"
    /\ pc = "for"
    /\ handled = << >>
    /\ batch # << >>
    /\ LineBound
    /\ led_blinking
    /\ \E t \in Threads : Alive(t)

\* C19: whenever the main thread waits for the next edge event, the flag
\* is set and exactly one blink worker is alive.
C19_BlinkingWhileIdle ==
    (ctx = "program" /\ pc = "read") => (led_blinking /\ Cardinality(AliveThreads) = 1)

\* C18: after the flag has been cleared, and until it is set again, a
\* worker writes the LED line at most once more; under fair scheduling,
\* unless the flag is set again, every worker then terminates and the main
\* thread is no longer waiting in the join of stop_led_blinking.
C18_WorkerStopsAfterClear ==
    /\ [](\A t \in Threads : writes[t] <= 1)
    /\ (~led_blinking) ~> ((AliveThreads = {} /\ pc # "join") \/ led_blinking)

C18_Witness ==
    /\ ~led_blinking
    /\ \E t \in Threads : workers[t] = "done" /\ writes[t] = 1

\* The names of FileNames that end, whatever the case of their letters, in
\* .jpg, .jpeg, .png, .gif or .bmp (written out by hand).
AllowListedNames ==
    { <<"a",".","j","p","g">>, <<"b",".","P","N","G">>, <<"d",".","J","p","e","g">>,
      <<"e",".","b","m","p">>, <<"f",".","G","I","F">> }

AllowListed == {i \in DOMAIN fs : fs[i].name \in AllowListedNames}

Selected(name) == ctx = "select" /\ pc = "selected" /\ history = << name >>

\* C13: for a folder with an allow-listed entry, get_latest_image_path
\* returns the allow-listed entry with the greatest modification time, and
\* of several such entries the first in listing order.
C13_LatestIsFirstNewest ==
    (Selected("get_latest_image_path") /\ AllowListed # {}) =>
        /\ error = None
        /\ \E i \in AllowListed :
             /\ image_path = join(synologyInkyPath, fs[i].name)
             /\ \A j \in AllowListed : fs[j].mtime <= fs[i].mtime
             /\ \A j \in AllowListed : fs[j].mtime = fs[i].mtime => i <= j

C13_Witness ==
    /\ Selected("get_latest_image_path")
    /\ \E i, j \in AllowListed :
         /\ i < j
         /\ fs[i].mtime = fs[j].mtime
         /\ \A k \in AllowListed : fs[k].mtime <= fs[i].mtime
         /\ image_path = join(synologyInkyPath, fs[i].name)

\* C14: both selectors return the path of an allow-listed entry of the
\* folder when there is one, and raise ValueError (EmptyFolder) when the
\* folder is empty or has no allow-listed entry.
C14_SelectorsReturnImages ==
    (ctx = "select" /\ pc = "selected") =>
        IF AllowListed = {}
        THEN error = "ValueError" /\ image_path = NoPath
        ELSE /\ error = None
             /\ \E i \in AllowListed : image_path = join(synologyInkyPath, fs[i].name)

C14_Witness ==
    /\ Selected("get_random_image_path")
    /\ \E i \in AllowListed : fs[i].name = <<"b",".","P","N","G">>
                              /\ image_path = join(synologyInkyPath, fs[i].name)
    /\ \E k \in DOMAIN fs : k \notin AllowListed

Resized == ctx = "resize" /\ pc = "resized"

\* round(x) of Python for a positive float: to the nearest integer, ties to
\* the even one
round(x) ==
    LET n == int(x)
        half == x.e < 0 /\ BitAt(x.m, 0 - x.e - 1) = 1
        rest == \E i \in 0..(0 - x.e - 2) : BitAt(x.m, i) = 1
    IN  IF half /\ (rest \/ n % 2 = 1) THEN n + 1 ELSE n

\* C15: the scaled size is rounded to the nearest integer: for an image
\* wider than the target the width is target_width and the height is
\* round(target_width / image_aspect), otherwise the height is
\* target_height and the width is round(target_height * image_aspect).
C15_ScaledSizeRounded ==
    Resized =>
        LET image_aspect == truediv(float(image.width), float(image.height))
            target_aspect == truediv(float(target_size[1]), float(target_size[2]))
        IN  IF gt(image_aspect, target_aspect)
            THEN /\ resized.new_width = target_size[1]
                 /\ resized.new_height = round(truediv(float(target_size[1]), image_aspect))
            ELSE /\ resized.new_height = target_size[2]
                 /\ resized.new_width = round(mul(target_size[2], image_aspect))

\* C16: the canvas has exactly the target size (W, H), the scaled content
\* lies inside it (scaled width <= W, scaled height <= H, offsets >= 0 and
\* equal to ((W - scaled width) \div 2, (H - scaled height) \div 2)), a
\* source of the target's aspect is scaled to exactly (W, H) with no border,
\* and 200x100 into 100x100 gives 100x50 at offset (0, 25).
C16_FitsAndFillsCanvas ==
    Resized =>
        /\ resized.size = target_size
        /\ resized.new_width <= target_size[1]
        /\ resized.new_height <= target_size[2]
        /\ resized.x_offset >= 0
        /\ resized.y_offset >= 0
        /\ resized.x_offset = (target_size[1] - resized.new_width) \div 2
        /\ resized.y_offset = (target_size[2] - resized.new_height) \div 2
        /\ (image.width * target_size[2] = target_size[1] * image.height) =>
               /\ resized.new_width = target_size[1]
               /\ resized.new_height = target_size[2]
               /\ resized.x_offset = 0
               /\ resized.y_offset = 0
        /\ (image = [width |-> 200, height |-> 100] /\ target_size = <<100, 100>>) =>
               /\ resized.new_width = 100
               /\ resized.new_height = 50
               /\ resized.x_offset = 0
               /\ resized.y_offset = 25

\* C20: for sizes that are all at least 1, both scaled dimensions are at
\* least 1, so that the resize is never asked for an empty image.
C20_ScaledSizePositive ==
    (Resized /\ image.width >= 1 /\ image.height >= 1
             /\ target_size[1] >= 1 /\ target_size[2] >= 1) =>
        (resized.new_width >= 1 /\ resized.new_height >= 1)
====
